---- MODULE Spec2Model ----
(***************************************************************************)
(* The incremental negative-cycle detection engine (class ArbitrageGraph): *)
(* the constructor, update_price, find_arbitrage_cycle and                 *)
(* reconstruct_cycle, as a state machine over the object's fields.         *)
(*                                                                         *)
(* Strings are sequences of one-character strings, so that find('-') and   *)
(* substr act on them as in the source.  A double is a record: a finite    *)
(* value with its 53 significant bits, an infinity or a NaN, with IEEE-754 *)
(* addition, rounding and comparison.                                      *)
(***************************************************************************)
EXTENDS Integers, Sequences, FiniteSets, TLC

VARIABLES symbols,          \* the constructor's argument
          alive,            \* FALSE once the process has crashed
          num_vertices, currency_to_id, id_to_currency,
          adjacency_list, edge_index_map,
          distance, predecessor, update_counts, dirty_vertices,
          last,             \* the last call and what it returned or threw
          call,             \* where a find_arbitrage_cycle in progress stands
          inputFile,        \* the launcher's input file and the read position
          copies_share,     \* the threads' queue parameters are one queue
          queue,            \* the records in each thread function's queue
          enqueued,         \* the records passed to enqueue so far
          received,         \* the updates the logic thread has printed
          io_thread, logic_thread,   \* where each thread function stands
          main_thread       \* where main stands

\* the state of the launcher (main.cpp)
launcher == <<inputFile, copies_share, queue, enqueued, received,
              io_thread, logic_thread, main_thread>>

vars == <<symbols, alive, num_vertices, currency_to_id, id_to_currency,
          adjacency_list, edge_index_map, distance, predecessor,
          update_counts, dirty_vertices, last, call, launcher>>

(***************************************************************************)
(* Bounds of the model.                                                    *)
(***************************************************************************)
\* no further call once an update count has grown past MaxCount
MaxCount == 3
\* no further update_price while the dirty queue holds more than MaxDirty ids
MaxDirty == 2
\* the input file of the launcher has at most MaxLines lines after its header
MaxLines == 2

(***************************************************************************)
(* Strings.                                                                *)
(***************************************************************************)
\* the character's code, for std::string's operator<
CharCode(c) ==
  CASE c = "-" -> 45 [] c = "A" -> 65 [] c = "B" -> 66
    [] c = "C" -> 67 [] c = "D" -> 68 [] OTHER -> 0

\* std::string::find(ch): the 0-based position of the first ch, npos = -1
RECURSIVE FindFrom(_, _, _)
FindFrom(s, ch, i) ==
  IF i > Len(s) THEN -1
  ELSE IF s[i] = ch THEN i - 1
  ELSE FindFrom(s, ch, i + 1)

find(s, ch) == FindFrom(s, ch, 1)

\* std::string::substr(pos, n) and substr(pos)
substr(s, pos, n) == SubSeq(s, pos + 1, pos + n)
substrFrom(s, pos) == SubSeq(s, pos + 1, Len(s))

\* std::string's operator< : lexicographic on the character codes
RECURSIVE StrLess(_, _)
StrLess(a, b) ==
  IF Len(b) = 0 THEN FALSE
  ELSE IF Len(a) = 0 THEN TRUE
  ELSE IF CharCode(Head(a)) # CharCode(Head(b))
       THEN CharCode(Head(a)) < CharCode(Head(b))
  ELSE StrLess(Tail(a), Tail(b))

\* the names in descending order
RECURSIVE NamesDescending(_)
NamesDescending(S) ==
  IF S = {} THEN <<>>
  ELSE LET m == CHOOSE x \in S : \A y \in S \ {x} : StrLess(y, x)
       IN <<m>> \o NamesDescending(S \ {m})

\* the elements of a std::set<std::string> in iteration (ascending) order
RECURSIVE SortedNames(_)
SortedNames(S) ==
  IF S = {} THEN <<>>
  ELSE LET m == CHOOSE x \in S : \A y \in S \ {x} : StrLess(x, y)
       IN <<m>> \o SortedNames(S \ {m})

(***************************************************************************)
(* Doubles.  A finite double is its sign and its magnitude, a whole number *)
(* of units of 2^-53 held as two limbs, hi * 2^28 + lo: every value the    *)
(* engine computes from the prices below is a multiple of 2^-53, so the    *)
(* sum of two of them is exact before it is rounded to 53 significant      *)
(* bits, to nearest, ties to even.                                         *)
(***************************************************************************)
Limb == 268435456

Dbl(s, hi, lo) == [k |-> "fin", s |-> s, hi |-> hi, lo |-> lo]
Zero == Dbl(1, 0, 0)
PInf == [k |-> "inf", s |-> 1, hi |-> 0, lo |-> 0]
NInf == [k |-> "inf", s |-> -1, hi |-> 0, lo |-> 0]
NaN == [k |-> "nan", s |-> 1, hi |-> 0, lo |-> 0]

IsZero(a) == a.k = "fin" /\ a.hi = 0 /\ a.lo = 0

\* |a| < |b|, |a| + |b| and |a| - |b| (for |a| >= |b|) of finite doubles
MagLess(a, b) == a.hi < b.hi \/ (a.hi = b.hi /\ a.lo < b.lo)

MagAdd(a, b) ==
  IF a.lo + b.lo >= Limb
  THEN [hi |-> a.hi + b.hi + 1, lo |-> a.lo + b.lo - Limb]
  ELSE [hi |-> a.hi + b.hi, lo |-> a.lo + b.lo]

MagSub(a, b) ==
  IF a.lo < b.lo
  THEN [hi |-> a.hi - b.hi - 1, lo |-> a.lo + Limb - b.lo]
  ELSE [hi |-> a.hi - b.hi, lo |-> a.lo - b.lo]

\* the spacing of the doubles at magnitude m, in units of 2^-53: 1 below 1.0,
\* 2 in [1, 2), 4 in [2, 4), ...
Ulp(m) ==
  IF m.hi < 33554432 THEN 1
  ELSE IF m.hi < 67108864 THEN 2
  ELSE IF m.hi < 134217728 THEN 4
  ELSE IF m.hi < 268435456 THEN 8
  ELSE IF m.hi < 536870912 THEN 16
  ELSE 32

\* magnitude m rounded to a double: to nearest, ties to even
RoundMag(m) ==
  LET q == Ulp(m)
      r == m.lo % q
      down == m.lo - r
      lo1 == IF 2 * r < q THEN down
             ELSE IF 2 * r > q THEN down + q
             ELSE IF (down \div q) % 2 = 0 THEN down
             ELSE down + q
  IN IF lo1 = Limb THEN [hi |-> m.hi + 1, lo |-> 0]
     ELSE [hi |-> m.hi, lo |-> lo1]

\* the exact sum of two finite doubles, as sign and magnitude
ExactAdd(a, b) ==
  IF a.s = b.s
  THEN LET m == MagAdd(a, b) IN [s |-> a.s, hi |-> m.hi, lo |-> m.lo]
  ELSE IF MagLess(a, b)
  THEN LET m == MagSub(b, a) IN [s |-> b.s, hi |-> m.hi, lo |-> m.lo]
  ELSE IF MagLess(b, a)
  THEN LET m == MagSub(a, b) IN [s |-> a.s, hi |-> m.hi, lo |-> m.lo]
  ELSE [s |-> 1, hi |-> 0, lo |-> 0]

\* IEEE-754 a + b
FAdd(a, b) ==
  IF a.k = "nan" \/ b.k = "nan" THEN NaN
  ELSE IF a.k = "inf" /\ b.k = "inf" THEN (IF a.s = b.s THEN a ELSE NaN)
  ELSE IF a.k = "inf" THEN a
  ELSE IF b.k = "inf" THEN b
  ELSE LET e == ExactAdd(a, b)
           m == RoundMag(e)
       IN Dbl(e.s, m.hi, m.lo)

\* IEEE-754 -a
FNeg(a) == IF a.k = "nan" THEN NaN ELSE [a EXCEPT !.s = 0 - a.s]

\* IEEE-754 a < b (false when either is a NaN; -0.0 < +0.0 is false)
FLess(a, b) ==
  IF a.k = "nan" \/ b.k = "nan" THEN FALSE
  ELSE IF a.k = "inf" THEN a.s = -1 /\ ~(b.k = "inf" /\ b.s = -1)
  ELSE IF b.k = "inf" THEN b.s = 1
  ELSE IF IsZero(a) /\ IsZero(b) THEN FALSE
  ELSE IF a.s # b.s THEN a.s = -1
  ELSE IF a.s = 1 THEN MagLess(a, b)
  ELSE MagLess(b, a)

\* IEEE-754 a != b (true when either is a NaN)
FNeq(a, b) ==
  \/ a.k = "nan" \/ b.k = "nan"
  \/ a.k # b.k
  \/ (a.k = "inf" /\ a.s # b.s)
  \/ (a.k = "fin" /\ ~(IsZero(a) /\ IsZero(b))
        /\ (a.s # b.s \/ a.hi # b.hi \/ a.lo # b.lo))

\* the double log(n) of libm for a whole n
LogNat(n) ==
  CASE n = 1 -> Zero
    [] n = 2 -> Dbl(1, 23258159, 251279855)
    [] n = 3 -> Dbl(1, 36863311, 89785878)
    [] n = 5 -> Dbl(1, 54003774, 266017382)
    [] n = 6 -> Dbl(1, 60121471, 72630276)
    [] n = 7 -> Dbl(1, 65293909, 207926446)
    [] n = 10 -> Dbl(1, 77261934, 248861784)

\* the double log(1.0 / n) of libm for a whole n: -log(n), but for 7 and 10,
\* where the rounding of 1.0 / n moves the logarithm by one unit in the last
\* place, away from zero for 7 and towards zero for 10
LogRecipNat(n) ==
  IF n = 7 THEN Dbl(-1, 65293909, 207926448)
  ELSE IF n = 10 THEN Dbl(-1, 77261934, 248861780)
  ELSE FNeg(LogNat(n))

\* a price: n / 1 or 1 / d for whole n and d; d = 0 is +infinity
Price(n, d) == [num |-> n, den |-> d]

\* 1.0 / price
Recip(p) ==
  IF p.den = 0 THEN Price(0, 1)
  ELSE IF p.num = 0 THEN Price(1, 0)
  ELSE IF p.num < 0 THEN Price(0 - p.den, 0 - p.num)
  ELSE Price(p.den, p.num)

\* log(price): NaN below zero, -inf at zero, +inf at +inf
log(p) ==
  IF p.num < 0 THEN NaN
  ELSE IF p.num = 0 THEN NInf
  ELSE IF p.den = 0 THEN PInf
  ELSE IF p.den = 1 THEN LogNat(p.num)
  ELSE LogRecipNat(p.den)

(***************************************************************************)
(* The engine: a record of the object's fields.  A vector indexed by       *)
(* vertex id is a function on 0..N-1; a vertex's edge list is a sequence,  *)
(* the edge at C++ index i being element i+1.                              *)
(***************************************************************************)
Engine ==
  [num_vertices |-> num_vertices, currency_to_id |-> currency_to_id,
   id_to_currency |-> id_to_currency, adjacency_list |-> adjacency_list,
   edge_index_map |-> edge_index_map, distance |-> distance,
   predecessor |-> predecessor, update_counts |-> update_counts,
   dirty_vertices |-> dirty_vertices]

\* the 64-bit key (source_id << 32) | dest_id, as its two 32-bit halves
create_edge_key(source_id, dest_id) == <<source_id, dest_id>>

\* the currencies of the well-formed symbols (the std::set of the constructor)
unique_currencies(syms) ==
  UNION { LET delimiter_pos == find(syms[i], "-")
          IN IF delimiter_pos # -1
             THEN {substr(syms[i], 0, delimiter_pos),
                   substrFrom(syms[i], delimiter_pos + 1)}
             ELSE {}
          : i \in 1..Len(syms) }

\* ArbitrageGraph::ArbitrageGraph, up to the write of distance[0]
Construct(syms) ==
  LET unique == unique_currencies(syms)
      n == Cardinality(unique)
      names == SortedNames(unique)
  IN [num_vertices |-> n,
      currency_to_id |->
        [c \in unique |-> (CHOOSE i \in 1..n : names[i] = c) - 1],
      id_to_currency |-> [i \in 0..(n - 1) |-> names[i + 1]],
      adjacency_list |-> [v \in 0..(n - 1) |-> <<>>],
      edge_index_map |-> <<>>,
      distance |-> [v \in 0..(n - 1) |-> IF v = 0 THEN Zero ELSE PInf],
      predecessor |-> [v \in 0..(n - 1) |-> -1],
      update_counts |-> [v \in 0..(n - 1) |-> 0],
      dirty_vertices |-> <<>>]

\* the outcomes of the constructor's last statement, distance[0] = 0.0: with
\* no vertex it writes outside the (empty) vector, which is undefined: the
\* process crashes, or the write goes unnoticed
ConstructOutcomes(syms) ==
  IF Construct(syms).num_vertices = 0 THEN {TRUE, FALSE} ELSE {TRUE}

\* upsert_edge that puts a new edge at the front of the list, as index 0
upsert_edge_at_front(g, u, v, w) ==
  LET key == create_edge_key(u, v)
  IN IF key \notin DOMAIN g.edge_index_map
     THEN [g EXCEPT !.adjacency_list[u] =
                       <<[destination_id |-> v, weight |-> w]>> \o @,
                    !.edge_index_map = (key :> 0) @@ @]
     ELSE [g EXCEPT !.adjacency_list[u][g.edge_index_map[key] + 1].weight = w]

\* upsert_edge without the lookup in edge_index_map: it always appends
upsert_edge_append(g, u, v, w) ==
  LET adj == [g.adjacency_list EXCEPT
                ![u] = Append(@, [destination_id |-> v, weight |-> w])]
  IN [g EXCEPT !.adjacency_list = adj,
               !.edge_index_map =
                  (create_edge_key(u, v) :> (Len(adj[u]) - 1)) @@ g.edge_index_map]

\* the forward or reverse edge update of update_price
upsert_edge(g, u, v, w) ==
  LET key == create_edge_key(u, v)
  IN IF key \notin DOMAIN g.edge_index_map
     THEN LET adj == [g.adjacency_list EXCEPT
                        ![u] = Append(@, [destination_id |-> v, weight |-> w])]
          IN [g EXCEPT !.adjacency_list = adj,
                       !.edge_index_map =
                          (key :> (Len(adj[u]) - 1)) @@ g.edge_index_map]
     ELSE [g EXCEPT !.adjacency_list[u][g.edge_index_map[key] + 1].weight = w]

\* write_price with the forward weight written to the reverse edge as well
write_price_one_weight(g, base_id, quote_id, price) ==
  LET weight == FNeg(log(price))
      g1 == upsert_edge(g, base_id, quote_id, weight)
      g2 == upsert_edge(g1, quote_id, base_id, weight)
  IN [g2 EXCEPT !.dirty_vertices = Append(Append(@, base_id), quote_id)]

\* update_price from the weights on, for registered ids: both edges are
\* written and both ids join the dirty queue
write_price(g, base_id, quote_id, price) ==
  LET weight == FNeg(log(price))
      reverse_weight == FNeg(log(Recip(price)))
      g1 == upsert_edge(g, base_id, quote_id, weight)
      g2 == upsert_edge(g1, quote_id, base_id, reverse_weight)
  IN [g2 EXCEPT !.dirty_vertices = Append(Append(@, base_id), quote_id)]

\* update_price that marks the registered side of an untracked pair dirty
update_price_marks_known_side(g, symbol, price) ==
  LET delimiter_pos == find(symbol, "-")
  IN IF delimiter_pos = -1
     THEN [g |-> g, out |-> "runtime_error"]
     ELSE
       LET base_currency == substr(symbol, 0, delimiter_pos)
           quote_currency == substrFrom(symbol, delimiter_pos + 1)
           known == SelectSeq(<<base_currency, quote_currency>>,
                              LAMBDA c : c \in DOMAIN g.currency_to_id)
       IN IF Len(known) < 2
          THEN [g |-> [g EXCEPT !.dirty_vertices =
                         @ \o [i \in 1..Len(known) |-> g.currency_to_id[known[i]]]],
                out |-> "not_tracked"]
          ELSE [g |-> write_price(g, g.currency_to_id[base_currency],
                                  g.currency_to_id[quote_currency], price),
                out |-> "ok"]

\* update_price without the test for npos: substr(0, npos) and substr(0) are
\* the whole symbol, which is no registered currency
update_price_without_npos_test(g, symbol, price) ==
  LET delimiter_pos == find(symbol, "-")
      base_currency == IF delimiter_pos = -1 THEN symbol
                       ELSE substr(symbol, 0, delimiter_pos)
      quote_currency == substrFrom(symbol, delimiter_pos + 1)
  IN IF base_currency \notin DOMAIN g.currency_to_id
        \/ quote_currency \notin DOMAIN g.currency_to_id
     THEN [g |-> g, out |-> "not_tracked"]
     ELSE [g |-> write_price(g, g.currency_to_id[base_currency],
                             g.currency_to_id[quote_currency], price),
           out |-> "ok"]

\* ArbitrageGraph::update_price: the engine afterwards and how the call ended
update_price(g, symbol, price) ==
  LET delimiter_pos == find(symbol, "-")
  IN IF delimiter_pos = -1
     THEN [g |-> g, out |-> "runtime_error"]
     ELSE
       LET base_currency == substr(symbol, 0, delimiter_pos)
           quote_currency == substrFrom(symbol, delimiter_pos + 1)
       IN IF base_currency \notin DOMAIN g.currency_to_id
             \/ quote_currency \notin DOMAIN g.currency_to_id
          THEN [g |-> g, out |-> "not_tracked"]
          ELSE [g |-> write_price(g, g.currency_to_id[base_currency],
                                  g.currency_to_id[quote_currency], price),
                out |-> "ok"]

\* std::vector<int>::at on predecessor: in range, or std::out_of_range
InRange(g, i) == i \in 0..(g.num_vertices - 1)

\* the first loop of reconstruct_cycle: i more hops along predecessor; -2 when
\* predecessor.at(current) throws
RECURSIVE WalkBack(_, _, _)
WalkBack(g, current, i) ==
  IF i = 0 THEN current
  ELSE IF ~InRange(g, current) THEN -2
  ELSE WalkBack(g, g.predecessor[current], i - 1)

\* CollectPath with push_back in place of insert(begin())
RECURSIVE CollectPathAppend(_, _, _, _)
CollectPathAppend(g, cycle_start, current, path) ==
  IF ~(current \in 0..(g.num_vertices - 1)) THEN <<-2>>
  ELSE LET path1 == path \o <<current>>
           next == g.predecessor[current]
       IN IF next # cycle_start
          THEN CollectPathAppend(g, cycle_start, next, path1)
          ELSE path1 \o <<cycle_start>>

\* the do-while loop of reconstruct_cycle, entered with current and the path
\* so far: the path once the walk is back at cycle_start, <<-2>> when
\* predecessor.at(current) throws
RECURSIVE CollectPath(_, _, _, _)
CollectPath(g, cycle_start, current, path) ==
  IF ~InRange(g, current) THEN <<-2>>
  ELSE LET path1 == <<current>> \o path
           next == g.predecessor[current]
       IN IF next # cycle_start
          THEN CollectPath(g, cycle_start, next, path1)
          ELSE <<cycle_start>> \o path1

\* ArbitrageGraph::reconstruct_cycle: the currency names of the cycle, or an
\* std::out_of_range thrown by at()
reconstruct_cycle(g, start_node) ==
  LET cycle_start == WalkBack(g, start_node, g.num_vertices)
  IN IF cycle_start = -2 THEN [kind |-> "out_of_range", cycle |-> <<>>]
     ELSE LET path == CollectPath(g, cycle_start, cycle_start, <<>>)
          IN IF path = <<-2>> THEN [kind |-> "out_of_range", cycle |-> <<>>]
             ELSE [kind |-> "cycle",
                   cycle |-> [i \in 1..Len(path) |-> g.id_to_currency[path[i]]]]

\* the relaxation test of find_arbitrage_cycle for edge u -> v
Relaxes(g, u, edge) ==
  /\ FNeq(g.distance[u], PInf)
  /\ FLess(FAdd(g.distance[u], edge.weight), g.distance[edge.destination_id])

\* RelaxEdge without predecessor[v] = u
RelaxEdgeKeepsPredecessor(g, u, edge) ==
  LET v == edge.destination_id
  IN [g EXCEPT !.distance[v] = FAdd(g.distance[u], edge.weight),
               !.dirty_vertices = Append(@, v),
               !.update_counts[v] = @ + 1]

\* RelaxEdge without update_counts[v]++
RelaxEdgeUncounted(g, u, edge) ==
  LET v == edge.destination_id
  IN [g EXCEPT !.distance[v] = FAdd(g.distance[u], edge.weight),
               !.predecessor[v] = u,
               !.dirty_vertices = Append(@, v)]

\* the body of the relaxation test: distance, predecessor, queue and count
RelaxEdge(g, u, edge) ==
  LET v == edge.destination_id
  IN [g EXCEPT !.distance[v] = FAdd(g.distance[u], edge.weight),
               !.predecessor[v] = u,
               !.dirty_vertices = Append(@, v),
               !.update_counts[v] = @ + 1]

\* the for loop over adjacency_list[u], from its i-th edge on: the engine
\* afterwards and the vertex whose count reached num_vertices (-1: none)
RECURSIVE ScanEdges(_, _, _)
ScanEdges(g, u, i) ==
  IF i > Len(g.adjacency_list[u]) THEN [g |-> g, seed |-> -1]
  ELSE LET edge == g.adjacency_list[u][i]
       IN IF Relaxes(g, u, edge)
          THEN LET g1 == RelaxEdge(g, u, edge)
                   v == edge.destination_id
               IN IF g1.update_counts[v] >= g1.num_vertices
                  THEN [g |-> g1, seed |-> v]
                  ELSE ScanEdges(g1, u, i + 1)
          ELSE ScanEdges(g, u, i + 1)

\* ArbitrageGraph::find_arbitrage_cycle: the engine afterwards and ret, the
\* value returned (kind "cycle" or "nullopt") or the exception (kind
\* "out_of_range")
RECURSIVE find_arbitrage_cycle(_)
find_arbitrage_cycle(g) ==
  IF g.dirty_vertices = <<>>
  THEN [g |-> g, ret |-> [kind |-> "nullopt", cycle |-> <<>>]]
  ELSE LET u == Head(g.dirty_vertices)
           r == ScanEdges([g EXCEPT !.dirty_vertices = Tail(@)], u, 1)
       IN IF r.seed # -1
          THEN [g |-> r.g, ret |-> reconstruct_cycle(r.g, r.seed)]
          ELSE find_arbitrage_cycle(r.g)

(***************************************************************************)
(* The inputs.                                                             *)
(***************************************************************************)
SymAB == <<"A", "-", "B">>
SymBC == <<"B", "-", "C">>
SymAC == <<"A", "-", "C">>
\* a currency against itself
SymAA == <<"A", "-", "A">>
\* no '-'
SymMalformed == <<"A", "B">>
\* D is in no symbol list
SymUnknown == <<"A", "-", "D">>

\* the symbol lists the engine is constructed from
SymbolLists ==
  { <<>>,
    <<SymMalformed>>,
    <<SymAB>>,
    <<SymMalformed, SymAB, SymAB>>,
    <<SymBC, SymAC, SymAB>> }

\* prices above zero
P2 == Price(2, 1)
P3 == Price(3, 1)
P5 == Price(5, 1)
P6 == Price(6, 1)
P7 == Price(7, 1)
P10 == Price(10, 1)
PHalf == Price(1, 2)
\* zero and a price below zero
PZero == Price(0, 1)
PNeg == Price(-1, 1)

\* the ticks with a price above zero: a tracked or untracked pair, or a
\* symbol without '-'
ValidTicks ==
  { <<SymAB, P2>>, <<SymAB, P3>>, <<SymBC, P3>>, <<SymAC, P5>>,
    <<SymAA, P2>>, <<SymUnknown, P2>>, <<SymMalformed, P2>> }

\* ticks of tracked pairs with a price below one among them
FractionTicks ==
  { <<SymAB, P2>>, <<SymAB, PHalf>>, <<SymBC, P2>>, <<SymAC, P5>> }

\* ticks of tracked pairs with prices of every kind: prices whose logarithm
\* and whose reciprocal's logarithm round alike (2, 5) or differently (7, 10),
\* a currency against itself, zero and a price below zero
PairTicks ==
  { <<SymAB, P2>>, <<SymBC, P7>>, <<SymBC, P10>>, <<SymAC, P5>>,
    <<SymAA, P2>>, <<SymAB, PZero>>, <<SymAB, PNeg>> }

\* the ticks with a price that is not above zero
InvalidTicks == { <<SymAB, PZero>>, <<SymAB, PNeg>> }

\* the ticks of the runs that also feed prices not above zero
AnyPriceTicks ==
  InvalidTicks \cup { <<SymAB, P2>>, <<SymBC, P3>>, <<SymAC, P6>> }

NoCall == [op |-> "none", out |-> "none", cycle |-> <<>>]

\* no find_arbitrage_cycle is in progress.  Of a call in progress: phase is
\* the loop it is in, u and i the vertex and the edge of the for loop,
\* current, hops, cycle_start and path the locals of reconstruct_cycle;
\* queued, dequeues and relaxations count the work of the call (the queue
\* length on entry, the pops and the relaxations so far)
Idle ==
  [phase |-> "idle", u |-> -1, i |-> 0, current |-> -1, hops |-> 0,
   cycle_start |-> -1, path |-> <<>>, queued |-> 0, dequeues |-> 0,
   relaxations |-> 0]

(***************************************************************************)
(* The state machine.                                                      *)
(***************************************************************************)
SetEngine(g) ==
  /\ num_vertices' = g.num_vertices
  /\ currency_to_id' = g.currency_to_id
  /\ id_to_currency' = g.id_to_currency
  /\ adjacency_list' = g.adjacency_list
  /\ edge_index_map' = g.edge_index_map
  /\ distance' = g.distance
  /\ predecessor' = g.predecessor
  /\ update_counts' = g.update_counts
  /\ dirty_vertices' = g.dirty_vertices

\* the launcher is not part of the run
NotLaunched ==
  /\ inputFile = [is_open |-> FALSE, lines |-> <<>>, pos |-> 0]
  /\ copies_share = FALSE
  /\ queue = [f \in {"io_thread_fn", "logic_thread_fn"} |-> <<>>]
  /\ enqueued = <<>>
  /\ received = <<>>
  /\ io_thread = "none" /\ logic_thread = "none" /\ main_thread = "none"

Init ==
  /\ symbols \in SymbolLists
  /\ alive \in ConstructOutcomes(symbols)
  /\ LET g == Construct(symbols)
     IN /\ num_vertices = g.num_vertices
        /\ currency_to_id = g.currency_to_id
        /\ id_to_currency = g.id_to_currency
        /\ adjacency_list = g.adjacency_list
        /\ edge_index_map = g.edge_index_map
        /\ distance = g.distance
        /\ predecessor = g.predecessor
        /\ update_counts = g.update_counts
        /\ dirty_vertices = g.dirty_vertices
  /\ last = NoCall
  /\ call = Idle
  /\ NotLaunched

\* the model's bound on the run: no further call once a count has grown past
\* MaxCount, no further tick while the queue is longer than MaxDirty
WithinBounds == \A v \in DOMAIN update_counts : update_counts[v] <= MaxCount

\* a call of update_price(symbol, price)
UpdatePrice(symbol, price) ==
  /\ alive
  /\ call = Idle
  /\ WithinBounds
  /\ Len(dirty_vertices) <= MaxDirty
  /\ LET r == update_price(Engine, symbol, price)
     IN /\ SetEngine(r.g)
        /\ last' = [op |-> "update_price", out |-> r.out, cycle |-> <<>>]
  /\ UNCHANGED launcher
  /\ UNCHANGED <<symbols, alive, call>>

\* a call of find_arbitrage_cycle()
FindArbitrageCycle ==
  /\ alive
  /\ call = Idle
  /\ WithinBounds
  /\ LET r == find_arbitrage_cycle(Engine)
     IN /\ SetEngine(r.g)
        /\ last' = [op |-> "find_arbitrage_cycle", out |-> r.ret.kind,
                    cycle |-> r.ret.cycle]
  /\ UNCHANGED launcher
  /\ UNCHANGED <<symbols, alive, call>>

Next ==
  \/ \E tick \in ValidTicks : UpdatePrice(tick[1], tick[2])
  \/ FindArbitrageCycle

\* the calls a caller that keeps prices above zero makes
Spec == Init /\ [][Next]_vars

NextAnyPrice ==
  \/ \E tick \in AnyPriceTicks : UpdatePrice(tick[1], tick[2])
  \/ FindArbitrageCycle

\* the calls of a caller that also passes prices not above zero
SpecAnyPrice == Init /\ [][NextAnyPrice]_vars

NextFraction ==
  \/ \E tick \in FractionTicks : UpdatePrice(tick[1], tick[2])
  \/ FindArbitrageCycle

\* the calls of a caller whose prices are above zero, some below one
SpecFraction == Init /\ [][NextFraction]_vars

NextPairs ==
  \/ \E tick \in PairTicks : UpdatePrice(tick[1], tick[2])
  \/ FindArbitrageCycle

\* the calls of a caller that passes prices of every kind
SpecPairs == Init /\ [][NextPairs]_vars

(***************************************************************************)
(* find_arbitrage_cycle step by step: one action per loop iteration, so    *)
(* that the states inside a call and the work of a call can be stated.     *)
(***************************************************************************)
\* the ticks of the step-by-step runs
StepTicks ==
  { <<SymAB, P2>>, <<SymAB, P3>>, <<SymBC, P3>>, <<SymAC, P5>> }

\* the call returns or throws: what the caller sees, and no call in progress
Return(kind, cycle) ==
  /\ last' = [op |-> "find_arbitrage_cycle", out |-> kind, cycle |-> cycle]
  /\ call' = Idle

\* find_arbitrage_cycle is entered
EnterFind ==
  /\ alive
  /\ call = Idle
  /\ WithinBounds
  /\ call' = [Idle EXCEPT !.phase = "while", !.queued = Len(dirty_vertices)]
  /\ UNCHANGED launcher
  /\ UNCHANGED <<symbols, alive, num_vertices, currency_to_id, id_to_currency,
                 adjacency_list, edge_index_map, distance, predecessor,
                 update_counts, dirty_vertices, last>>

\* the test of the while loop: return std::nullopt on an empty queue, else
\* pop the front vertex and start on its edges
Dequeue ==
  /\ call.phase = "while"
  /\ IF dirty_vertices = <<>>
     THEN /\ Return("nullopt", <<>>)
          /\ UNCHANGED dirty_vertices
     ELSE /\ dirty_vertices' = Tail(dirty_vertices)
          /\ call' = [call EXCEPT !.phase = "for", !.u = Head(dirty_vertices),
                                  !.i = 1, !.dequeues = @ + 1]
          /\ UNCHANGED last
  /\ UNCHANGED launcher
  /\ UNCHANGED <<symbols, alive, num_vertices, currency_to_id, id_to_currency,
                 adjacency_list, edge_index_map, distance, predecessor,
                 update_counts>>

\* one iteration of the for loop over adjacency_list[u]: the relaxation test,
\* its body and the threshold test, which calls reconstruct_cycle(v)
ScanEdge ==
  /\ call.phase = "for"
  /\ IF call.i > Len(adjacency_list[call.u])
     THEN /\ call' = [call EXCEPT !.phase = "while"]
          /\ UNCHANGED <<distance, predecessor, update_counts, dirty_vertices>>
     ELSE LET edge == adjacency_list[call.u][call.i]
              v == edge.destination_id
          IN IF Relaxes(Engine, call.u, edge)
             THEN LET g1 == RelaxEdge(Engine, call.u, edge)
                  IN /\ distance' = g1.distance
                     /\ predecessor' = g1.predecessor
                     /\ update_counts' = g1.update_counts
                     /\ dirty_vertices' = g1.dirty_vertices
                     /\ IF g1.update_counts[v] >= num_vertices
                        THEN call' = [call EXCEPT !.phase = "walk",
                                                  !.current = v, !.hops = 0,
                                                  !.relaxations = @ + 1]
                        ELSE call' = [call EXCEPT !.i = @ + 1,
                                                  !.relaxations = @ + 1]
             ELSE /\ call' = [call EXCEPT !.i = @ + 1]
                  /\ UNCHANGED <<distance, predecessor, update_counts,
                                 dirty_vertices>>
  /\ UNCHANGED launcher
  /\ UNCHANGED <<symbols, alive, num_vertices, currency_to_id, id_to_currency,
                 adjacency_list, edge_index_map, last>>

\* one iteration of the first loop of reconstruct_cycle, or the step from it
\* to the do-while loop; predecessor.at(current) throws out of the call
WalkHop ==
  /\ call.phase = "walk"
  /\ IF call.hops >= num_vertices
     THEN /\ call' = [call EXCEPT !.phase = "do", !.cycle_start = call.current,
                                  !.hops = 0]
          /\ UNCHANGED last
     ELSE IF ~InRange(Engine, call.current)
     THEN Return("out_of_range", <<>>)
     ELSE /\ call' = [call EXCEPT !.current = predecessor[call.current],
                                  !.hops = @ + 1]
          /\ UNCHANGED last
  /\ UNCHANGED launcher
  /\ UNCHANGED <<symbols, alive, num_vertices, currency_to_id, id_to_currency,
                 adjacency_list, edge_index_map, distance, predecessor,
                 update_counts, dirty_vertices>>

\* one iteration of the do-while loop of reconstruct_cycle; when the walk is
\* back at cycle_start the names of the path are returned
CollectHop ==
  /\ call.phase = "do"
  /\ IF ~InRange(Engine, call.current)
     THEN Return("out_of_range", <<>>)
     ELSE LET path1 == <<call.current>> \o call.path
              next == predecessor[call.current]
          IN IF next # call.cycle_start
             THEN /\ call' = [call EXCEPT !.path = path1, !.current = next,
                                          !.hops = @ + 1]
                  /\ UNCHANGED last
             ELSE LET path2 == <<call.cycle_start>> \o path1
                  IN Return("cycle",
                            [k \in 1..Len(path2) |-> id_to_currency[path2[k]]])
  /\ UNCHANGED launcher
  /\ UNCHANGED <<symbols, alive, num_vertices, currency_to_id, id_to_currency,
                 adjacency_list, edge_index_map, distance, predecessor,
                 update_counts, dirty_vertices>>

NextSteps ==
  \/ \E tick \in StepTicks : UpdatePrice(tick[1], tick[2])
  \/ EnterFind
  \/ Dequeue
  \/ ScanEdge
  \/ WalkHop
  \/ CollectHop

\* the calls of a caller that keeps prices above zero, seen at every loop
\* iteration of find_arbitrage_cycle
SpecSteps == Init /\ [][NextSteps]_vars

(***************************************************************************)
(* The launcher (main.cpp): main starts the ingestion thread, which reads  *)
(* the input file line by line and enqueues one PriceUpdate per line and   *)
(* then the "STOP" record, and the logic thread, which dequeues until it   *)
(* receives "STOP"; main joins both.  One action per statement that        *)
(* another thread can observe.                                             *)
(***************************************************************************)
STOP == <<"S", "T", "O", "P">>

\* the lines of an input file: timestamp,symbol,price,quantity
Header == <<"t", ",", "s", ",", "p", ",", "q">>
LineAB2 == <<"1", ",", "A", "-", "B", ",", "2", ",", "1">>
LineBC3 == <<"2", ",", "B", "-", "C", ",", "3", "5", ",", "1">>
\* an empty line
LineBlank == <<>>
DataLines == {LineAB2, LineBC3, LineBlank}

\* the input files: an empty one, and a header followed by data lines
Files ==
  {<<>>} \cup
    { <<Header>> \o d : d \in UNION { [1..n -> DataLines] : n \in 0..MaxLines } }

\* the k-th std::getline(ss, field, delimiter) on a stream that holds s: the
\* text up to the next delimiter or the end; empty once the stream is used up
RECURSIVE getline(_, _, _)
getline(s, delimiter, k) ==
  LET pos == find(s, delimiter)
  IN IF k = 1 THEN (IF pos = -1 THEN s ELSE substr(s, 0, pos))
     ELSE IF pos = -1 THEN <<>>
     ELSE getline(substrFrom(s, pos + 1), delimiter, k - 1)

\* the value of a decimal digit, -1 for any other character
DigitValue(c) ==
  CASE c = "0" -> 0 [] c = "1" -> 1 [] c = "2" -> 2 [] c = "3" -> 3
    [] c = "4" -> 4 [] c = "5" -> 5 [] c = "6" -> 6 [] c = "7" -> 7
    [] c = "8" -> 8 [] c = "9" -> 9 [] OTHER -> -1

RECURSIVE Digits(_, _, _)
\* the value of the digits of s from the i-th on, after acc
Digits(s, i, acc) ==
  IF i > Len(s) \/ DigitValue(s[i]) = -1 THEN acc
  ELSE Digits(s, i + 1, 10 * acc + DigitValue(s[i]))

\* std::stod on a string of the files above: the value of its leading digits,
\* -1 when there is none (std::invalid_argument is thrown)
stod(s) ==
  IF s = <<>> \/ DigitValue(s[1]) = -1 THEN -1 ELSE Digits(s, 1, 0)

\* the price member of poison_pill is never set and never read
Indeterminate == Price(0, 0)
poison_pill == [symbol |-> STOP, price |-> Indeterminate]

\* main up to "Threads launched": the file is there or not, both thread
\* functions have received their queue argument, no engine is constructed.
\* The parameter is declared by value and the queue class is not part of the
\* sources: its copy is a queue of its own or refers to shared_queue.
InitLauncher ==
  /\ symbols = <<>>
  /\ alive = TRUE
  /\ LET g == Construct(symbols)
     IN /\ num_vertices = g.num_vertices
        /\ currency_to_id = g.currency_to_id
        /\ id_to_currency = g.id_to_currency
        /\ adjacency_list = g.adjacency_list
        /\ edge_index_map = g.edge_index_map
        /\ distance = g.distance
        /\ predecessor = g.predecessor
        /\ update_counts = g.update_counts
        /\ dirty_vertices = g.dirty_vertices
  /\ last = NoCall
  /\ call = Idle
  /\ inputFile \in [is_open : BOOLEAN, lines : Files, pos : {0}]
  /\ copies_share \in BOOLEAN
  /\ queue = [f \in {"io_thread_fn", "logic_thread_fn"} |-> <<>>]
  /\ enqueued = <<>>
  /\ received = <<>>
  /\ io_thread = "open" /\ logic_thread = "wait_dequeue"
  /\ main_thread = "join_io"

EngineUntouched ==
  UNCHANGED <<symbols, num_vertices, currency_to_id, id_to_currency,
              adjacency_list, edge_index_map, distance, predecessor,
              update_counts, dirty_vertices, last, call>>

\* queue.enqueue(update) in io_thread_fn
enqueue(update) ==
  /\ queue' = IF copies_share
              THEN [f \in DOMAIN queue |-> Append(queue[f], update)]
              ELSE [queue EXCEPT !["io_thread_fn"] = Append(@, update)]
  /\ enqueued' = Append(enqueued, update)

\* the ingestion thread opens the file; it returns when that fails
IoOpen ==
  /\ alive /\ io_thread = "open"
  /\ io_thread' = IF inputFile.is_open THEN "header" ELSE "returned"
  /\ EngineUntouched
  /\ UNCHANGED <<alive, inputFile, copies_share, queue, enqueued, received,
                 logic_thread, main_thread>>

\* the first std::getline, whose line is dropped
IoSkipHeader ==
  /\ alive /\ io_thread = "header"
  /\ inputFile' = [inputFile EXCEPT
                     !.pos = IF @ < Len(inputFile.lines) THEN @ + 1 ELSE @]
  /\ io_thread' = "while"
  /\ EngineUntouched
  /\ UNCHANGED <<alive, copies_share, queue, enqueued, received,
                 logic_thread, main_thread>>

\* one iteration of the while loop: a line is read, split and enqueued; an
\* exception of std::stod leaves the thread function and ends the process
IoReadLine ==
  /\ alive /\ io_thread = "while"
  /\ inputFile.pos < Len(inputFile.lines)
  /\ LET line == inputFile.lines[inputFile.pos + 1]
         symbol_str == getline(line, ",", 2)
         price_str == getline(line, ",", 3)
     IN IF stod(price_str) = -1
        THEN /\ alive' = FALSE
             /\ UNCHANGED <<queue, enqueued>>
        ELSE /\ enqueue([symbol |-> symbol_str,
                         price |-> Price(stod(price_str), 1)])
             /\ UNCHANGED alive
  /\ inputFile' = [inputFile EXCEPT !.pos = @ + 1]
  /\ EngineUntouched
  /\ UNCHANGED <<copies_share, received, io_thread, logic_thread, main_thread>>

\* the loop ends at the end of the file: the poison pill is enqueued and the
\* thread function returns
IoSendPoisonPill ==
  /\ alive /\ io_thread = "while"
  /\ inputFile.pos >= Len(inputFile.lines)
  /\ enqueue(poison_pill)
  /\ io_thread' = "returned"
  /\ EngineUntouched
  /\ UNCHANGED <<alive, inputFile, copies_share, received, logic_thread,
                 main_thread>>

\* one iteration of the logic thread's loop: wait_dequeue blocks while its
\* queue is empty; "STOP" ends the loop, any other update is printed
LogicDequeue ==
  /\ alive /\ logic_thread = "wait_dequeue"
  /\ queue["logic_thread_fn"] # <<>>
  /\ LET received_update == Head(queue["logic_thread_fn"])
     IN /\ queue' = IF copies_share
                    THEN [f \in DOMAIN queue |-> Tail(queue[f])]
                    ELSE [queue EXCEPT !["logic_thread_fn"] = Tail(@)]
        /\ IF received_update.symbol = STOP
           THEN logic_thread' = "returned" /\ UNCHANGED received
           ELSE /\ received' = Append(received, received_update)
                /\ UNCHANGED logic_thread
  /\ EngineUntouched
  /\ UNCHANGED <<alive, inputFile, copies_share, enqueued, io_thread,
                 main_thread>>

\* io_thread.join() returns once the ingestion thread has returned
JoinIo ==
  /\ alive /\ main_thread = "join_io" /\ io_thread = "returned"
  /\ main_thread' = "join_logic"
  /\ EngineUntouched
  /\ UNCHANGED <<alive, inputFile, copies_share, queue, enqueued, received,
                 io_thread, logic_thread>>

\* logic_thread.join() returns once the logic thread has returned
JoinLogic ==
  /\ alive /\ main_thread = "join_logic" /\ logic_thread = "returned"
  /\ main_thread' = "returned"
  /\ EngineUntouched
  /\ UNCHANGED <<alive, inputFile, copies_share, queue, enqueued, received,
                 io_thread, logic_thread>>

NextLauncher ==
  \/ IoOpen
  \/ IoSkipHeader
  \/ IoReadLine
  \/ IoSendPoisonPill
  \/ LogicDequeue
  \/ JoinIo
  \/ JoinLogic

\* the runs of the launcher; a thread that can take a step takes it in the end
SpecLauncher ==
  /\ InitLauncher /\ [][NextLauncher]_vars
  /\ WF_vars(IoOpen \/ IoSkipHeader \/ IoReadLine \/ IoSendPoisonPill)
  /\ WF_vars(LogicDequeue)
  /\ WF_vars(JoinIo \/ JoinLogic)

(***************************************************************************)
(* The graph the engine stores, for the statements below.                  *)
(***************************************************************************)
Vertices == 0..(num_vertices - 1)

\* the edge u -> v is stored
HasEdge(u, v) == \E i \in 1..Len(adjacency_list[u]) :
                    adjacency_list[u][i].destination_id = v

\* the weight of the (first) stored edge u -> v
WeightOf(u, v) ==
  LET i == CHOOSE j \in 1..Len(adjacency_list[u]) :
             /\ adjacency_list[u][j].destination_id = v
             /\ \A k \in 1..(j - 1) : adjacency_list[u][k].destination_id # v
  IN adjacency_list[u][i].weight

\* the sum of two weights as real numbers (no rounding); NaN and the
\* infinities as in FAdd
XAdd(a, b) ==
  IF a.k = "fin" /\ b.k = "fin"
  THEN LET e == ExactAdd(a, b) IN Dbl(e.s, e.hi, e.lo)
  ELSE FAdd(a, b)

\* a sum of weights is negative: below zero by more than 2^-25, far above
\* what rounding can add to a sum of a few weights and far below any
\* negative sum the prices of the model can make
Negative(x) ==
  \/ x.k = "inf" /\ x.s = -1
  \/ x.k = "fin" /\ x.s = -1 /\ x.hi >= 1

\* the closed walks u1 -> u2 -> ... -> un -> u1 over distinct vertices
SimpleCycles ==
  { c \in UNION { [1..n -> Vertices] : n \in 1..num_vertices } :
      /\ \A i, j \in 1..Len(c) : i # j => c[i] # c[j]
      /\ \A i \in 1..Len(c) : HasEdge(c[i], c[(i % Len(c)) + 1]) }

RECURSIVE SumFrom(_, _)
\* the sum of the weights of the cycle's edges from the i-th on
SumFrom(c, i) ==
  IF i > Len(c) THEN Zero
  ELSE XAdd(WeightOf(c[i], c[(i % Len(c)) + 1]), SumFrom(c, i + 1))

NegativeCycles == { c \in SimpleCycles : Negative(SumFrom(c, 1)) }

RECURSIVE ReachFrom(_, _)
\* the vertices reachable from those of S along stored edges
ReachFrom(S, n) ==
  IF n = 0 THEN S
  ELSE ReachFrom(S \cup { v \in Vertices : \E u \in S : HasEdge(u, v) }, n - 1)

\* a negative cycle can be reached from a vertex of S
NegativeCycleReachableFrom(S) ==
  \E c \in NegativeCycles : c[1] \in ReachFrom(S, num_vertices)

FiniteVertices == { v \in Vertices : FNeq(distance[v], PInf) }

\* the ids of the currencies of the sequence find_arbitrage_cycle returned
CycleIds == [i \in 1..Len(last.cycle) |-> currency_to_id[last.cycle[i]]]

RECURSIVE PathSum(_, _)
\* the sum of the weights of the edges p[i] -> p[i+1] from the i-th on
PathSum(p, i) ==
  IF i >= Len(p) THEN Zero
  ELSE XAdd(WeightOf(p[i], p[i + 1]), PathSum(p, i + 1))

Returned(kind) == last.op = "find_arbitrage_cycle" /\ last.out = kind

(***************************************************************************)
(* C1: when the stored weights admit no negative cycle reachable from      *)
(* vertex 0, what find_arbitrage_cycle returns is "no cycle": it reports   *)
(* no cycle because prices moved over several ticks.  (A call that raises  *)
(* instead of returning is C5's case.)                                     *)
(***************************************************************************)
C1_NoCycleWithoutNegativeCycle ==
  (last.op = "find_arbitrage_cycle" /\ ~NegativeCycleReachableFrom({0}))
    => last.out # "cycle"

(***************************************************************************)
(* C2: the weights of the edges along a returned cycle sum to less than 0. *)
(***************************************************************************)
C2_ReturnedCycleIsNegative ==
  Returned("cycle") => Negative(PathSum(CycleIds, 1))

(***************************************************************************)
(* C3: when the stored weights hold a negative cycle reachable from a      *)
(* vertex with finite distance, what the next find_arbitrage_cycle call    *)
(* returns is a cycle, not "no cycle".  (A call that raises instead of     *)
(* returning is C5's case.)                                                *)
(***************************************************************************)
C3_NegativeCycleIsReturned ==
  [][(FindArbitrageCycle /\ NegativeCycleReachableFrom(FiniteVertices))
       => last'.out # "nullopt"]_vars

(***************************************************************************)
(* C4: a returned sequence has at least two entries, begins and ends with  *)
(* the same currency, and each step c[i] -> c[i+1] is a stored edge with   *)
(* predecessor[c[i+1]] = c[i].                                             *)
(***************************************************************************)
C4_ReturnedCycleIsTraversable ==
  Returned("cycle") =>
    /\ Len(last.cycle) >= 2
    /\ last.cycle[1] = last.cycle[Len(last.cycle)]
    /\ \A i \in 1..(Len(last.cycle) - 1) :
         /\ HasEdge(CycleIds[i], CycleIds[i + 1])
         /\ predecessor[CycleIds[i + 1]] = CycleIds[i]

\* a cycle through three currencies has been returned
C4_Witness == Returned("cycle") /\ Len(last.cycle) = 4

(***************************************************************************)
(* C5: find_arbitrage_cycle never raises: it returns a cycle or "no        *)
(* cycle", also when the reconstruction meets predecessor = -1.            *)
(***************************************************************************)
C5_FindNeverRaises ==
  last.op = "find_arbitrage_cycle" => last.out \in {"cycle", "nullopt"}

(***************************************************************************)
(* The ticks by what update_price does with them.                          *)
(***************************************************************************)
WellFormed(symbol) == find(symbol, "-") # -1
BaseOf(symbol) == substr(symbol, 0, find(symbol, "-"))
QuoteOf(symbol) == substrFrom(symbol, find(symbol, "-") + 1)

\* both sides of the symbol are registered currencies
Tracked(symbol) ==
  /\ WellFormed(symbol)
  /\ BaseOf(symbol) \in DOMAIN currency_to_id
  /\ QuoteOf(symbol) \in DOMAIN currency_to_id

\* the engine after the step
EngineAfter ==
  [num_vertices |-> num_vertices', currency_to_id |-> currency_to_id',
   id_to_currency |-> id_to_currency', adjacency_list |-> adjacency_list',
   edge_index_map |-> edge_index_map', distance |-> distance',
   predecessor |-> predecessor', update_counts |-> update_counts',
   dirty_vertices |-> dirty_vertices']

\* the SPFA arrays and the graph are as before the step
GraphUnchanged == UNCHANGED <<adjacency_list, edge_index_map>>
SpfaUnchanged == UNCHANGED <<distance, predecessor, update_counts>>

\* the price is above zero
AboveZero(price) == price.num > 0

\* after the step, edge A->B has weight -log(p) and edge B->A weight +log(p)
WeightsAsClaimed(symbol, price) ==
  LET A == currency_to_id[BaseOf(symbol)]
      B == currency_to_id[QuoteOf(symbol)]
  IN /\ HasEdge(A, B)' /\ WeightOf(A, B)' = FNeg(log(price))
     /\ HasEdge(B, A)' /\ WeightOf(B, A)' = log(price)

\* after the step, edge A->B has weight -log(p) and edge B->A the weight
\* -log(1.0 / p)
WeightsAsComputed(symbol, price) ==
  LET A == currency_to_id[BaseOf(symbol)]
      B == currency_to_id[QuoteOf(symbol)]
  IN /\ HasEdge(A, B)' /\ WeightOf(A, B)' = FNeg(log(price))
     /\ HasEdge(B, A)' /\ WeightOf(B, A)' = FNeg(log(Recip(price)))

\* what C6 says of the rest of the step update_price(symbol, price), base A,
\* quote B: no other edge's weight or position is modified, the SPFA arrays
\* are unchanged and the dirty queue grows by A then B
UpdateEffect(symbol, price) ==
  LET A == currency_to_id[BaseOf(symbol)]
      B == currency_to_id[QuoteOf(symbol)]
  IN /\ \A u \in Vertices :
          /\ Len(adjacency_list'[u]) >= Len(adjacency_list[u])
          /\ \A i \in 1..Len(adjacency_list[u]) :
               LET e == adjacency_list[u][i]
               IN /\ adjacency_list'[u][i].destination_id = e.destination_id
                  /\ <<u, e.destination_id>> \notin {<<A, B>>, <<B, A>>}
                       => adjacency_list'[u][i] = e
          /\ \A i \in (Len(adjacency_list[u]) + 1)..Len(adjacency_list'[u]) :
               <<u, adjacency_list'[u][i].destination_id>>
                  \in {<<A, B>>, <<B, A>>} \ { <<u, e.destination_id>> :
                        e \in { adjacency_list[u][j] :
                                  j \in 1..Len(adjacency_list[u]) } }
     /\ \A key \in DOMAIN edge_index_map :
          key \in DOMAIN edge_index_map'
            /\ edge_index_map'[key] = edge_index_map[key]
     /\ SpfaUnchanged
     /\ dirty_vertices' = dirty_vertices \o <<A, B>>

(***************************************************************************)
(* C6, as claimed: after update_price("A-B", p) with A and B registered    *)
(* and p > 0, edge A->B has weight -log(p) and edge B->A weight +log(p),   *)
(* no other edge's weight or position is modified, distance, predecessor   *)
(* and update_counts are unchanged and the dirty queue grows by A then B.  *)
(***************************************************************************)
C6_UpdateWritesBothEdges_AsClaimed ==
  [][\A tick \in PairTicks :
       (Tracked(tick[1]) /\ AboveZero(tick[2])
          /\ UpdatePrice(tick[1], tick[2]))
         => WeightsAsClaimed(tick[1], tick[2])
              /\ UpdateEffect(tick[1], tick[2])]_vars

(***************************************************************************)
(* C6, amended: after update_price("A-B", p) with A and B two different    *)
(* registered currencies and p > 0, edge A->B has weight -log(p) and edge  *)
(* B->A has weight -log(1.0 / p), the double the code computes, which is   *)
(* +log(p) only up to rounding; the rest as claimed.                       *)
(***************************************************************************)
C6_UpdateWritesBothEdges ==
  [][\A tick \in PairTicks :
       (Tracked(tick[1]) /\ BaseOf(tick[1]) # QuoteOf(tick[1])
          /\ AboveZero(tick[2]) /\ UpdatePrice(tick[1], tick[2]))
         => WeightsAsComputed(tick[1], tick[2])
              /\ UpdateEffect(tick[1], tick[2])]_vars

\* an accepted tick with price 7 for the pair B-C has overwritten its weights
\* in a graph of three pairs, with SPFA state from earlier calls: the weight
\* of C->B is not log(7)
C6_Witness ==
  /\ num_vertices = 3
  /\ last.op = "update_price" /\ last.out = "ok"
  /\ \A u \in Vertices : Len(adjacency_list[u]) >= 2 /\ update_counts[u] >= 1
  /\ dirty_vertices = <<1, 2>>
  /\ WeightOf(1, 2) = FNeg(LogNat(7))
  /\ WeightOf(2, 1) = FNeg(LogRecipNat(7)) /\ WeightOf(2, 1) # LogNat(7)

(***************************************************************************)
(* C7: update_price for a well-formed symbol with a side that is not a     *)
(* registered currency does not fail and changes nothing: graph, edge      *)
(* index map, dirty queue, distance, predecessor and update_counts are as  *)
(* before, and so are what the next find_arbitrage_cycle returns and what  *)
(* a later update_price for any symbol does.                               *)
(***************************************************************************)
C7_UnknownCurrencyChangesNothing ==
  [][\A tick \in ValidTicks :
       (WellFormed(tick[1]) /\ ~Tracked(tick[1])
          /\ UpdatePrice(tick[1], tick[2]))
         => /\ last'.out = "not_tracked"
            /\ GraphUnchanged /\ SpfaUnchanged
            /\ UNCHANGED <<dirty_vertices, num_vertices, currency_to_id,
                           id_to_currency, alive>>
            /\ find_arbitrage_cycle(EngineAfter) = find_arbitrage_cycle(Engine)
            /\ \A later \in ValidTicks :
                 update_price(EngineAfter, later[1], later[2])
                   = update_price(Engine, later[1], later[2])]_vars

\* a tick for an untracked pair has been swallowed with ticks pending
C7_Witness ==
  /\ last.op = "update_price" /\ last.out = "not_tracked"
  /\ dirty_vertices # <<>>
  /\ \E v \in Vertices : update_counts[v] >= 1

(***************************************************************************)
(* C8: update_price for a symbol without '-' fails with an error the       *)
(* caller sees, changes no engine state, and leaves the engine usable: a   *)
(* later update_price does what it would have done without the call.       *)
(***************************************************************************)
C8_MalformedSymbolThrows ==
  [][\A tick \in ValidTicks :
       (~WellFormed(tick[1]) /\ UpdatePrice(tick[1], tick[2]))
         => /\ last'.out = "runtime_error"
            /\ GraphUnchanged /\ SpfaUnchanged
            /\ UNCHANGED <<dirty_vertices, num_vertices, currency_to_id,
                           id_to_currency, alive>>
            /\ \A later \in ValidTicks :
                 update_price(EngineAfter, later[1], later[2])
                   = update_price(Engine, later[1], later[2])]_vars

\* a tick without '-' has been refused with ticks pending
C8_Witness ==
  /\ last.op = "update_price" /\ last.out = "runtime_error"
  /\ dirty_vertices # <<>>
  /\ \E v \in Vertices : update_counts[v] >= 1

(***************************************************************************)
(* C9: update_price for a registered symbol with a price that is not above *)
(* zero fails, writes no edge weight and enqueues no dirty vertex.         *)
(***************************************************************************)
C9_InvalidPriceRejected ==
  [][\A tick \in InvalidTicks :
       (Tracked(tick[1]) /\ UpdatePrice(tick[1], tick[2]))
         => /\ last'.out # "ok"
            /\ GraphUnchanged
            /\ UNCHANGED dirty_vertices]_vars

(***************************************************************************)
(* C10: from any reachable state, the same update_price twice and then     *)
(* find_arbitrage_cycle gives the same weights, the same return value and  *)
(* the same distance, predecessor and update_counts as update_price once   *)
(* and then find_arbitrage_cycle.                                          *)
(***************************************************************************)
SameOutcome(r1, r2) ==
  /\ r1.ret = r2.ret
  /\ r1.g.adjacency_list = r2.g.adjacency_list
  /\ r1.g.distance = r2.g.distance
  /\ r1.g.predecessor = r2.g.predecessor
  /\ r1.g.update_counts = r2.g.update_counts

C10_UpdateTwiceIsUpdateOnce ==
  alive =>
    \A tick \in FractionTicks :
      LET once == update_price(Engine, tick[1], tick[2]).g
          twice == update_price(once, tick[1], tick[2]).g
      IN SameOutcome(find_arbitrage_cycle(once), find_arbitrage_cycle(twice))

(***************************************************************************)
(* C11: every find_arbitrage_cycle call terminates, with a negative cycle  *)
(* stored or not: inside a call the relaxations number at most N*(N-1)+1   *)
(* (each raises an update count, and a count of N ends the loop), the pops *)
(* at most the queue length on entry plus the relaxations, the for loop    *)
(* stays within the edge list, and each predecessor walk of the            *)
(* reconstruction takes at most N hops.                                    *)
(***************************************************************************)
C11_FindTerminates ==
  call # Idle =>
    /\ call.relaxations <= num_vertices * (num_vertices - 1) + 1
    /\ call.dequeues <= call.queued + call.relaxations
    /\ call.phase = "for" => call.i <= Len(adjacency_list[call.u]) + 1
    /\ call.phase \in {"walk", "do"} => call.hops <= num_vertices

\* a call that popped three vertices and relaxed twice is walking a
\* predecessor cycle of three vertices
C11_Witness ==
  /\ call.phase = "do" /\ call.hops = 2
  /\ call.dequeues >= 3 /\ call.relaxations >= 2

\* the prices of the ticks
TickPrices == { tick[2] : tick \in PairTicks }

\* the weights a and b are those update_price writes for one price: -log(p)
\* on the edge base -> quote and -log(1.0 / p) on the edge quote -> base
WrittenTogether(a, b) ==
  \E p \in TickPrices : a = FNeg(log(p)) /\ b = FNeg(log(Recip(p)))

(***************************************************************************)
(* C12, as claimed: in every reachable state, for every stored edge u->v   *)
(* with weight w the inverse edge v->u is stored and has weight -w.        *)
(***************************************************************************)
C12_InverseEdgeNegated ==
  \A u \in Vertices : \A i \in 1..Len(adjacency_list[u]) :
    LET e == adjacency_list[u][i]
    IN /\ HasEdge(e.destination_id, u)
       /\ WeightOf(e.destination_id, u) = FNeg(e.weight)

(***************************************************************************)
(* C12, amended: in every reachable state, for every stored edge u->v      *)
(* between two different currencies the inverse edge v->u is stored, and   *)
(* the two weights are those of one price p written together: -log(p) on   *)
(* the edge base -> quote and -log(1.0 / p) on the edge quote -> base.     *)
(***************************************************************************)
C12_InverseEdgeWrittenTogether ==
  \A u \in Vertices : \A i \in 1..Len(adjacency_list[u]) :
    LET e == adjacency_list[u][i]
        v == e.destination_id
    IN v # u =>
         /\ HasEdge(v, u)
         /\ \/ WrittenTogether(e.weight, WeightOf(v, u))
            \/ WrittenTogether(WeightOf(v, u), e.weight)

\* three pairs are stored: one priced 7, whose two weights are not the
\* negation of each other, one priced 10, and one whose last price was not
\* above zero
C12_Witness ==
  /\ num_vertices = 3
  /\ \A u \in Vertices : Len(adjacency_list[u]) >= 2
  /\ WeightOf(1, 2) = FNeg(LogNat(10)) /\ WeightOf(2, 1) # LogNat(10)
  /\ WeightOf(0, 1).k # "fin"
  /\ WeightOf(0, 2) = FNeg(LogNat(5))

\* edge_index_map and adjacency_list describe each other: one edge per
\* destination, and the map holds exactly the positions of the stored edges
IndexMapMatches ==
  /\ \A u \in Vertices : \A i, j \in 1..Len(adjacency_list[u]) :
       i # j => adjacency_list[u][i].destination_id
                  # adjacency_list[u][j].destination_id
  /\ \A key \in DOMAIN edge_index_map :
       /\ key[1] \in Vertices
       /\ edge_index_map[key] + 1 \in 1..Len(adjacency_list[key[1]])
       /\ adjacency_list[key[1]][edge_index_map[key] + 1].destination_id = key[2]
  /\ \A u \in Vertices : \A i \in 1..Len(adjacency_list[u]) :
       LET key == create_edge_key(u, adjacency_list[u][i].destination_id)
       IN key \in DOMAIN edge_index_map /\ edge_index_map[key] = i - 1

\* no step removes or moves an edge or changes an index
EdgesStay ==
  /\ \A key \in DOMAIN edge_index_map :
       key \in DOMAIN edge_index_map' /\ edge_index_map'[key] = edge_index_map[key]
  /\ \A u \in Vertices :
       /\ Len(adjacency_list'[u]) >= Len(adjacency_list[u])
       /\ \A i \in 1..Len(adjacency_list[u]) :
            adjacency_list'[u][i].destination_id
              = adjacency_list[u][i].destination_id

(***************************************************************************)
(* C13: in every reachable state adjacency_list[u] holds at most one edge  *)
(* per destination and edge_index_map[key(u,v)] is the position of that    *)
(* edge; and no operation changes an index once it exists, or removes or   *)
(* reorders an edge.                                                       *)
(***************************************************************************)
C13_EdgeIndexStable == []IndexMapMatches /\ [][EdgesStay]_vars

\* a tick has overwritten weights in a graph that holds the three pairs and
\* the edge of a currency to itself
C13_Witness ==
  /\ last.op = "update_price" /\ last.out = "ok"
  /\ Len(adjacency_list[0]) = 3
  /\ \A u \in Vertices \ {0} : Len(adjacency_list[u]) = 2
  /\ \E v \in Vertices : update_counts[v] >= 2

\* the currencies named as BASE or QUOTE by the well-formed symbols of S
CurrenciesOf(S) ==
  { BaseOf(S[i]) : i \in { j \in 1..Len(S) : WellFormed(S[j]) } }
    \cup { QuoteOf(S[i]) : i \in { j \in 1..Len(S) : WellFormed(S[j]) } }

\* N and the two mappings are those the symbol list calls for
RegistryMatches ==
  /\ num_vertices = Cardinality(CurrenciesOf(symbols))
  /\ DOMAIN id_to_currency = 0..(num_vertices - 1)
  /\ DOMAIN currency_to_id = CurrenciesOf(symbols)
  /\ \A i \in 0..(num_vertices - 1) :
       /\ id_to_currency[i] \in CurrenciesOf(symbols)
       /\ currency_to_id[id_to_currency[i]] = i
  /\ \A i, j \in 0..(num_vertices - 1) :
       i < j => StrLess(id_to_currency[i], id_to_currency[j])

(***************************************************************************)
(* C14: after construction from the symbol list, N is the number of        *)
(* distinct currencies of its well-formed symbols (symbols without '-'     *)
(* skipped, duplicates counted once), ids 0..N-1 go in ascending order of  *)
(* currency name, id_of(name_of(i)) = i, and no operation changes N or the *)
(* mappings.                                                               *)
(***************************************************************************)
C14_RegistryFixed ==
  /\ []RegistryMatches
  /\ [][UNCHANGED <<num_vertices, currency_to_id, id_to_currency>>]_vars

\* an engine built from three pairs listed out of name order, after ticks
\* and a find call that reported a cycle
C14_Witness ==
  /\ symbols = <<SymBC, SymAC, SymAB>>
  /\ num_vertices = 3
  /\ Returned("cycle")
  /\ Len(adjacency_list[0]) >= 2

(***************************************************************************)
(* C15: an engine built from an empty symbol list, or from malformed       *)
(* symbols only, has N = 0 and was built without a write outside the       *)
(* vertex arrays, and find_arbitrage_cycle on it reports "no cycle".       *)
(***************************************************************************)
C15_EmptyListConstructs ==
  num_vertices = 0 =>
    /\ alive
    /\ last.op = "find_arbitrage_cycle" => last.out = "nullopt"

\* the paths 0 -> ... -> v over distinct vertices along stored edges
SimplePathsTo(v) ==
  { p \in UNION { [1..n -> Vertices] : n \in 1..num_vertices } :
      /\ p[1] = 0 /\ p[Len(p)] = v
      /\ \A i, j \in 1..Len(p) : i # j => p[i] # p[j]
      /\ \A i \in 1..(Len(p) - 1) : HasEdge(p[i], p[i + 1]) }

\* two path weights are equal up to what rounding can add (2^-25)
Near(a, b) ==
  \/ a.k = "inf" /\ b.k = "inf" /\ a.s = b.s
  \/ a.k = "fin" /\ b.k = "fin" /\ ExactAdd(a, FNeg(b)).hi = 0

\* distance[v] is the weight of a shortest path from vertex 0 to v
IsShortestDistance(v) ==
  IF SimplePathsTo(v) = {} THEN distance[v] = PInf
  ELSE /\ \E p \in SimplePathsTo(v) : Near(distance[v], PathSum(p, 1))
       /\ \A q \in SimplePathsTo(v) :
            ~Negative(XAdd(PathSum(q, 1), FNeg(distance[v])))

(***************************************************************************)
(* C16: whenever find_arbitrage_cycle returns "no cycle" (and the stored   *)
(* weights have no negative cycle reachable from vertex 0, so that         *)
(* shortest paths exist), distance[v] is for every vertex v the weight of  *)
(* a shortest path from vertex 0 to v under the current weights, infinity  *)
(* if there is none; also after a tick that increased a weight.            *)
(***************************************************************************)
C16_DistancesAreShortest ==
  (Returned("nullopt") /\ ~NegativeCycleReachableFrom({0}))
    => \A v \in Vertices : IsShortestDistance(v)

(***************************************************************************)
(* C17: when find_arbitrage_cycle has just returned a cycle and the stored *)
(* weights still hold a negative cycle (no update_price in between), the   *)
(* next find_arbitrage_cycle call does not return "no cycle": the early    *)
(* return drops no pending relaxation.  (A call that raises instead of     *)
(* returning is C5's case.)                                                *)
(***************************************************************************)
C17_CycleIsReportedAgain ==
  [][(/\ Returned("cycle")
      /\ NegativeCycleReachableFrom(FiniteVertices)
      /\ FindArbitrageCycle)
       => last'.out # "nullopt"]_vars

\* x lies on a cycle of the predecessor relation
OnPredecessorCycle(x) ==
  \E k \in 1..num_vertices : WalkBack(Engine, x, k) = x

(***************************************************************************)
(* C18: whenever a relaxation has raised update_counts[v] to N or more     *)
(* (the call is about to walk back from v), following predecessor N times  *)
(* from v never meets -1 and ends on a vertex that lies on a cycle of the  *)
(* predecessor relation, so that the second walk comes back to it.         *)
(***************************************************************************)
C18_WalkEndsOnCycle ==
  (call.phase = "walk" /\ call.hops = 0) =>
    LET x == WalkBack(Engine, call.current, num_vertices)
    IN x \in Vertices /\ OnPredecessorCycle(x)

\* every finite distance has its predecessor edge stored, and only vertex 0
\* has a finite distance without a predecessor
PredecessorEdgesStored ==
  \A v \in Vertices :
    FNeq(distance[v], PInf) =>
      /\ v = 0 \/ predecessor[v] # -1
      /\ predecessor[v] # -1 =>
           predecessor[v] \in Vertices /\ HasEdge(predecessor[v], v)

\* a step that writes distance[v] or predecessor[v] writes both, from the
\* predecessor's distance and the edge's weight as they are at that step
SetFromPredecessor ==
  \A v \in Vertices :
    (distance'[v] # distance[v] \/ predecessor'[v] # predecessor[v]) =>
      LET p == predecessor'[v]
      IN /\ p \in Vertices /\ HasEdge(p, v)
         /\ FNeq(distance[p], PInf)
         /\ distance'[v] = FAdd(distance[p], WeightOf(p, v))

(***************************************************************************)
(* C19: for every vertex v with finite distance[v] and predecessor[v] = p, *)
(* p # -1, the edge p -> v is stored, and distance[v] was set, together    *)
(* with predecessor[v], to distance[p] plus that edge's weight as they     *)
(* were at that relaxation step; distance[v] is finite only for vertex 0   *)
(* or a vertex with a predecessor.                                         *)
(***************************************************************************)
C19_DistanceComesFromPredecessor ==
  []PredecessorEdgesStored /\ [][SetFromPredecessor]_vars

\* between operations, three currencies, every vertex (vertex 0 too) has a
\* predecessor and some distance has been set more than once
C19_Witness ==
  /\ call = Idle /\ num_vertices = 3
  /\ \A v \in Vertices : predecessor[v] # -1 /\ FNeq(distance[v], PInf)
  /\ \E v \in Vertices : update_counts[v] >= 2

\* the vertices in the dirty queue
Queued == { dirty_vertices[i] : i \in 1..Len(dirty_vertices) }

\* the stored edges u -> v that the relaxation test would relax
TenseEdges ==
  { <<u, i>> \in Vertices \X (1..(2 * num_vertices)) :
      /\ i <= Len(adjacency_list[u])
      /\ Relaxes(Engine, u, adjacency_list[u][i]) }

(***************************************************************************)
(* C20: between operations (after construction, after update_price, after  *)
(* find_arbitrage_cycle has returned a cycle or "no cycle") every stored   *)
(* edge u -> v with distance[u] finite and distance[u] + w < distance[v]   *)
(* has u in the dirty queue; when "no cycle" was returned the queue is     *)
(* empty and there is no such edge.  (States after a call that raised are  *)
(* left out: that is C5's case.)                                           *)
(***************************************************************************)
C20_TenseEdgesAreQueued ==
  last.out # "out_of_range" =>
    /\ \A e \in TenseEdges : e[1] \in Queued
    /\ Returned("nullopt") => dirty_vertices = <<>> /\ TenseEdges = {}

\* the ingestion thread has returned only after enqueuing "STOP" last
SentinelIsLast ==
  io_thread = "returned" =>
    enqueued # <<>> /\ enqueued[Len(enqueued)].symbol = STOP

\* the logic thread has returned only after it has dequeued, in order, every
\* tick enqueued before the sentinel
TicksAllReceived ==
  logic_thread = "returned" =>
    /\ enqueued # <<>> /\ enqueued[Len(enqueued)].symbol = STOP
    /\ received = SubSeq(enqueued, 1, Len(enqueued) - 1)

(***************************************************************************)
(* C21: in every execution of the launcher the ingestion thread enqueues   *)
(* "STOP" as its last record before it returns (also when the input file   *)
(* cannot be opened), the logic thread dequeues every tick enqueued before *)
(* it, in order, and then returns, and both joins of main return.          *)
(***************************************************************************)
C21_OrderlyShutdown ==
  /\ []SentinelIsLast
  /\ []TicksAllReceived
  /\ <>(main_thread = "returned")

====
